---- MODULE Spec2Model ----
(***************************************************************************)
(* CHIP-8 emulator (dustinbowers/chip8emu): the Chip8 struct of            *)
(* chip8/chip8.go, the cycle goroutine and the UI loop of main.go, and the *)
(* 60 Hz clock goroutine started by Initialize.                            *)
(***************************************************************************)
EXTENDS Integers, Sequences, FiniteSets, TLC

(***************************************************************************)
(* Program constants                                                       *)
(***************************************************************************)
MemSize == 4096
ScreenCols == 64
ScreenRows == 32
NumRegs == 16
StackSize == 16
NumKeys == 16
FontBase == 80
RomBase == 512
Byte == 256
Word == 65536

(***************************************************************************)
(* Bounds of the model                                                     *)
(***************************************************************************)
\* WaitGroups the UI may allocate with Pause in one run
MaxPauses == 2

fontSet ==
  << 240, 144, 144, 144, 240,   32,  96,  32,  32, 112,
     240,  16, 240, 128, 240,  240,  16, 240,  16, 240,
     144, 144, 240,  16,  16,  240, 128, 240,  16, 240,
     240, 128, 240, 144, 240,  240,  16,  32,  64,  64,
     240, 144, 240, 144, 240,  240, 144, 240,  16, 240,
     240, 144, 240, 144, 144,  224, 144, 224, 144, 224,
     240, 128, 128, 128, 240,  224, 144, 144, 144, 224,
     240, 128, 240, 128, 240,  240, 128, 240, 128, 128 >>

(***************************************************************************)
(* Fixed-width arithmetic of Go's uint8 / uint16                           *)
(***************************************************************************)
Pow2(i) == CASE i = 0 -> 1 [] i = 1 -> 2 [] i = 2 -> 4 [] i = 3 -> 8
             [] i = 4 -> 16 [] i = 5 -> 32 [] i = 6 -> 64 [] i = 7 -> 128
             [] i = 8 -> 256 [] i = 12 -> 4096 [] OTHER -> 2 ^ i

RECURSIVE BitOp(_, _, _, _)
\* bitwise combination of the low w bits of a and b; f is the truth table
\* <<f(0,0), f(0,1), f(1,0), f(1,1)>>
BitOp(f, a, b, w) ==
  IF w = 0 THEN 0
  ELSE f[2 * (a % 2) + (b % 2) + 1] + 2 * BitOp(f, a \div 2, b \div 2, w - 1)

And8(a, b) == BitOp(<<0, 0, 0, 1>>, a, b, 8)
Or8(a, b)  == BitOp(<<0, 1, 1, 1>>, a, b, 8)
Xor8(a, b) == BitOp(<<0, 1, 1, 0>>, a, b, 8)
And16(a, b) == BitOp(<<0, 0, 0, 1>>, a, b, 16)

U8(v)  == v % Byte
U16(v) == v % Word

(***************************************************************************)
(* The Chip8 struct.  A nil pointer is the empty sequence, a non-nil one   *)
(* the one-element sequence of what it points to (lastKey: the key; wg:    *)
(* the index of the WaitGroup in the heap wgs).                            *)
(***************************************************************************)
Chip8 ==
  [ schipMode    |-> FALSE,
    Screen       |-> [sx \in 0..(ScreenCols - 1) |-> [sy \in 0..(ScreenRows - 1) |-> 0]],
    Memory       |-> [a \in 0..(MemSize - 1) |-> 0],
    V            |-> [r \in 0..(NumRegs - 1) |-> 0],
    PC           |-> 0,
    I            |-> 0,
    SP           |-> 0,
    Stack        |-> [s \in 0..(StackSize - 1) |-> 0],
    DT           |-> 0,
    ST           |-> 0,
    DrawFlag     |-> FALSE,
    beepCallback |-> FALSE,
    keyboard     |-> [k \in 0..(NumKeys - 1) |-> FALSE],
    lastKey      |-> <<>>,
    opcode       |-> 0,
    x            |-> 0,
    y            |-> 0,
    n            |-> 0,
    kk           |-> 0,
    nnn          |-> 0,
    wg           |-> <<>> ]

\* Result of a method on the struct: the struct after it, and how it ended:
\* "ok", "err" (an error value is returned), "panic" (a Go run-time panic),
\* "block" (Fx0A has entered its polling loop); beep: the argument the beep
\* callback was called with, if it was called.
Res(c, how) == [ch |-> c, how |-> how, beep |-> <<>>]
Ok(c) == Res(c, "ok")

(***************************************************************************)
(* Initialize, LoadRomBytes                                                *)
(***************************************************************************)
Initialize(c) ==
  [c EXCEPT !.Memory = [a \in 0..(MemSize - 1) |->
                          IF a >= FontBase /\ a < FontBase + Len(fontSet)
                            THEN fontSet[a - FontBase + 1] ELSE c.Memory[a]],
            !.schipMode = TRUE,
            !.PC = RomBase]

\* Memory after the loop of LoadRomBytes has stored the first copied bytes
CopyRom(c, bytes, copied) ==
  [c EXCEPT !.Memory = [a \in 0..(MemSize - 1) |->
                          IF a \in RomBase..(RomBase + copied - 1)
                            THEN bytes[a - RomBase + 1] ELSE c.Memory[a]]]

\* for i, b := range bytes { ch.Memory[i+0x200] = b }: the store at index
\* 4096 panics after the bytes before it were copied
LoadRomBytes(c, bytes) ==
  IF Len(bytes) > MemSize - RomBase
    THEN Res(CopyRom(c, bytes, MemSize - RomBase), "panic")
    ELSE Ok(CopyRom(c, bytes, Len(bytes)))

(***************************************************************************)
(* fetchOpcode                                                             *)
(***************************************************************************)
fetchOpcode(c) ==
  IF c.PC >= MemSize \/ U16(c.PC + 1) >= MemSize THEN Res(c, "panic")
  ELSE
    LET pcByte  == c.Memory[c.PC]
        pc1Byte == c.Memory[U16(c.PC + 1)]
        op      == pcByte * Byte + pc1Byte
    IN Ok([c EXCEPT !.opcode = op,
                    !.n   = And8(pc1Byte, 15),
                    !.x   = And8(pcByte, 15),
                    !.y   = And8(pc1Byte \div 16, 15),
                    !.kk  = pc1Byte,
                    !.nnn = And16(op, 4095),
                    !.PC  = U16(c.PC + 2)])

(***************************************************************************)
(* executeOpcode, one operator for each case of its switch.  The           *)
(* assignments of a case are applied in the order of the code, each one    *)
(* reading the struct the previous one left.                               *)
(***************************************************************************)
\* the error value of the default cases
UnknownOpcode(c) == Res(c, "err")

\* 00E0 - CLS
Op00E0(c) ==
  Ok([c EXCEPT !.Screen = [sx \in 0..(ScreenCols - 1) |-> [sy \in 0..(ScreenRows - 1) |-> 0]]])

\* 00EE - RET
Op00EE(c) ==
  IF c.SP >= StackSize THEN Res(c, "panic")
  ELSE Ok([c EXCEPT !.PC = c.Stack[c.SP], !.SP = U16(c.SP - 1)])

\* case 0x0000: the switch is on kk, the low byte
Op0nnn(c) ==
  CASE c.kk = 224 -> Op00E0(c)
    [] c.kk = 238 -> Op00EE(c)
    [] OTHER      -> UnknownOpcode(c)

\* 1nnn - JP addr
Op1nnn(c) == Ok([c EXCEPT !.PC = c.nnn])

\* 2nnn that saves the address it jumps to
Op2nnn_SaveTarget(c) ==
  LET c1 == [c EXCEPT !.SP = U16(c.SP + 1)]
  IN IF c1.SP >= StackSize THEN Res(c1, "panic")
     ELSE Ok([c1 EXCEPT !.Stack[c1.SP] = c1.nnn, !.PC = c1.nnn])

\* 2nnn - CALL addr
Op2nnn(c) ==
  LET c1 == [c EXCEPT !.SP = U16(c.SP + 1)]
  IN IF c1.SP >= StackSize THEN Res(c1, "panic")
     ELSE Ok([c1 EXCEPT !.Stack[c1.SP] = c1.PC, !.PC = c1.nnn])

\* 3xkk - SE Vx, byte
Op3xkk(c) == Ok(IF c.V[c.x] = c.kk THEN [c EXCEPT !.PC = U16(c.PC + 2)] ELSE c)

\* 4xkk - SNE Vx, byte
Op4xkk(c) == Ok(IF c.V[c.x] # c.kk THEN [c EXCEPT !.PC = U16(c.PC + 2)] ELSE c)

\* 5xy0 - SE Vx, Vy (n is not looked at)
Op5xy0(c) == Ok(IF c.V[c.x] = c.V[c.y] THEN [c EXCEPT !.PC = U16(c.PC + 2)] ELSE c)

\* 6xkk - LD Vx, byte
Op6xkk(c) == Ok([c EXCEPT !.V[c.x] = c.kk])

\* 7xkk - ADD Vx, byte
Op7xkk(c) == Ok([c EXCEPT !.V[c.x] = U8(c.V[c.x] + c.kk)])

\* 8xy0 - LD Vx, Vy
Op8xy0(c) == Ok([c EXCEPT !.V[c.x] = c.V[c.y]])

\* 8xy1 - OR Vx, Vy
Op8xy1(c) == Ok([c EXCEPT !.V[c.x] = Or8(c.V[c.x], c.V[c.y])])

\* 8xy2 - AND Vx, Vy
Op8xy2(c) == Ok([c EXCEPT !.V[c.x] = And8(c.V[c.x], c.V[c.y])])

\* 8xy3 - XOR Vx, Vy
Op8xy3(c) == Ok([c EXCEPT !.V[c.x] = Xor8(c.V[c.x], c.V[c.y])])

\* 8xy4 - ADD Vx, Vy: VF is written first, then Vx from the registers as
\* they are after that write
Op8xy4(c) ==
  LET c1 == [c EXCEPT !.V[15] = IF c.V[c.x] + c.V[c.y] > 255 THEN 1 ELSE 0]
  IN Ok([c1 EXCEPT !.V[c.x] = U8(c1.V[c.x] + c1.V[c.y])])

\* 8xy5 - SUB Vx, Vy
Op8xy5(c) ==
  LET c1 == [c EXCEPT !.V[15] = IF c.V[c.x] > c.V[c.y] THEN 1 ELSE 0]
  IN Ok([c1 EXCEPT !.V[c.x] = U8(c1.V[c.x] - c1.V[c.y])])

\* 8xy6 - SHR Vx {, Vy}
Op8xy6(c) ==
  LET c1 == [c EXCEPT !.V[15] = And8(c.V[c.x], 1)]
  IN Ok([c1 EXCEPT !.V[c.x] = c1.V[c.x] \div 2])

\* 8xy7 - SUBN Vx, Vy
Op8xy7(c) ==
  LET c1 == [c EXCEPT !.V[15] = IF c.V[c.y] > c.V[c.x] THEN 1 ELSE 0]
  IN Ok([c1 EXCEPT !.V[c.x] = U8(c1.V[c.y] - c1.V[c.x])])

\* 8xyE - SHL Vx {, Vy}
Op8xyE(c) ==
  LET c1 == [c EXCEPT !.V[15] = And8(c.V[c.x] \div 128, 1)]
  IN Ok([c1 EXCEPT !.V[c.x] = U8(c1.V[c.x] * 2)])

\* 8xyn with VF reset ahead of the switch on n
Op8xyn_FlagReset(c) ==
  LET c0 == [c EXCEPT !.V[15] = 0]
  IN CASE c.n = 0  -> Op8xy0(c)
       [] c.n = 1  -> Op8xy1(c)
       [] c.n = 2  -> Op8xy2(c)
       [] c.n = 3  -> Op8xy3(c)
       [] c.n = 4  -> Op8xy4(c)
       [] c.n = 5  -> Op8xy5(c)
       [] c.n = 6  -> Op8xy6(c)
       [] c.n = 7  -> Op8xy7(c)
       [] c.n = 14 -> Op8xyE(c)
       [] OTHER    -> UnknownOpcode(c0)

\* case 0x8000: the switch is on n
Op8xyn(c) ==
  CASE c.n = 0  -> Op8xy0(c)
    [] c.n = 1  -> Op8xy1(c)
    [] c.n = 2  -> Op8xy2(c)
    [] c.n = 3  -> Op8xy3(c)
    [] c.n = 4  -> Op8xy4(c)
    [] c.n = 5  -> Op8xy5(c)
    [] c.n = 6  -> Op8xy6(c)
    [] c.n = 7  -> Op8xy7(c)
    [] c.n = 14 -> Op8xyE(c)
    [] OTHER    -> UnknownOpcode(c)

\* 9xy0 - SNE Vx, Vy: the switch is on n
Op9xy0(c) ==
  IF c.n = 0
    THEN Ok(IF c.V[c.x] # c.V[c.y] THEN [c EXCEPT !.PC = U16(c.PC + 2)] ELSE c)
    ELSE UnknownOpcode(c)

\* Annn - LD I, addr
OpAnnn(c) == Ok([c EXCEPT !.I = c.nnn])

\* Bnnn - JP V0, addr
OpBnnn(c) == Ok([c EXCEPT !.PC = U16(c.V[0] + c.nnn)])

\* Cxkk - RND Vx, byte; rnd is the value of rand.Intn(256)
OpCxkk(c, rnd) == Ok([c EXCEPT !.V[c.x] = And8(U8(rnd), c.kk)])

RECURSIVE DrawRow(_, _, _, _, _, _)
\* the inner loop with the bits laid out from the least significant one
DrawRow_Mirror(c, spriteByte, col, row, byteInd, bitInd) ==
  IF bitInd >= 8 THEN c
  ELSE
    LET bit     == And8(spriteByte \div Pow2(bitInd), 1)
        screenX == U8(col + U8(bitInd)) % ScreenCols
        screenY == U8(row + U8(byteInd)) % ScreenRows
        currVal == c.Screen[screenX][screenY]
        c1      == IF bit = 1 /\ currVal = 1 THEN [c EXCEPT !.V[15] = 1] ELSE c
    IN DrawRow([c1 EXCEPT !.Screen[screenX][screenY] = Xor8(currVal, bit)],
               spriteByte, col, row, byteInd, bitInd + 1)

\* the inner loop of Dxyn for one sprite byte, from bit bitInd on
DrawRow(c, spriteByte, col, row, byteInd, bitInd) ==
  IF bitInd >= 8 THEN c
  ELSE
    LET bit     == And8(spriteByte \div Pow2(bitInd), 1)
        screenX == U8(col + U8(7 - bitInd)) % ScreenCols
        screenY == U8(row + U8(byteInd)) % ScreenRows
        currVal == c.Screen[screenX][screenY]
        c1      == IF bit = 1 /\ currVal = 1 THEN [c EXCEPT !.V[15] = 1] ELSE c
    IN DrawRow([c1 EXCEPT !.Screen[screenX][screenY] = Xor8(currVal, bit)],
               spriteByte, col, row, byteInd, bitInd + 1)

RECURSIVE DrawSprite(_, _, _, _)
\* the outer loop of Dxyn from sprite byte byteInd on; a sprite byte past
\* the end of Memory panics after the rows before it were drawn
DrawSprite(c, col, row, byteInd) ==
  IF byteInd >= c.n THEN Ok([c EXCEPT !.DrawFlag = TRUE])
  ELSE IF c.I + byteInd >= MemSize THEN Res(c, "panic")
  ELSE DrawSprite(DrawRow(c, c.Memory[c.I + byteInd], col, row, byteInd, 0),
                  col, row, byteInd + 1)

\* Dxyn that keeps the flag of the instruction before it
OpDxyn_NoReset(c) == DrawSprite(c, c.V[c.x], c.V[c.y], 0)

\* Dxyn - DRW Vx, Vy, nibble
OpDxyn(c) ==
  DrawSprite([c EXCEPT !.V[15] = 0], c.V[c.x], c.V[c.y], 0)

\* Ex9E - SKP Vx
OpEx9E(c) ==
  IF c.V[c.x] >= NumKeys THEN Res(c, "panic")
  ELSE Ok(IF c.keyboard[c.V[c.x]] THEN [c EXCEPT !.PC = U16(c.PC + 2)] ELSE c)

\* ExA1 - SKNP Vx
OpExA1(c) ==
  IF c.V[c.x] >= NumKeys THEN Res(c, "panic")
  ELSE Ok(IF c.keyboard[c.V[c.x]] = FALSE THEN [c EXCEPT !.PC = U16(c.PC + 2)] ELSE c)

\* case 0xE000: the switch is on kk
OpExkk(c) ==
  CASE c.kk = 158 -> OpEx9E(c)
    [] c.kk = 161 -> OpExA1(c)
    [] OTHER      -> UnknownOpcode(c)

\* Fx07 - LD Vx, DT
OpFx07(c) == Ok([c EXCEPT !.V[c.x] = c.DT])

\* Fx0A that leaves the key in the slot
OpFx0A_KeepKey(c) ==
  IF c.lastKey = <<>> THEN Res(c, "block")
  ELSE Ok([c EXCEPT !.V[c.x] = c.lastKey[1]])

\* Fx0A - LD Vx, K: one pass of the polling loop; with no key latched the
\* goroutine sleeps and polls again
OpFx0A(c) ==
  IF c.lastKey = <<>> THEN Res(c, "block")
  ELSE Ok([c EXCEPT !.V[c.x] = c.lastKey[1], !.lastKey = <<>>])

\* Fx15 - LD DT, Vx
OpFx15(c) == Ok([c EXCEPT !.DT = c.V[c.x]])

\* Fx18 - LD ST, Vx; calling a nil beepCallback panics
OpFx18(c) ==
  LET c1 == [c EXCEPT !.ST = c.V[c.x]]
  IN IF c1.ST > 0
       THEN IF c1.beepCallback THEN [Ok(c1) EXCEPT !.beep = <<TRUE>>]
                               ELSE Res(c1, "panic")
       ELSE Ok(c1)

\* Fx1E - ADD I, Vx
OpFx1E(c) == Ok([c EXCEPT !.I = U16(c.I + c.V[c.x])])

\* Fx29 - LD F, Vx
OpFx29(c) == Ok([c EXCEPT !.I = U16(c.V[c.x] * 5 + FontBase)])

RECURSIVE StoreBytes(_, _, _)
\* Memory[I+a] = vals[a+1] for a = i, i+1, ...: the index is a uint16 and an
\* index past the end of Memory panics after the stores before it
StoreBytes(c, vals, i) ==
  IF i >= Len(vals) THEN Ok(c)
  ELSE IF U16(c.I + i) >= MemSize THEN Res(c, "panic")
  ELSE StoreBytes([c EXCEPT !.Memory[U16(c.I + i)] = vals[i + 1]], vals, i + 1)

\* Fx33 - LD B, Vx
OpFx33(c) ==
  StoreBytes(c, << (c.V[c.x] % 1000) \div 100,
                   (c.V[c.x] % 100) \div 10,
                   c.V[c.x] % 10 >>, 0)

\* Fx55 that stops one register short of Vx
OpFx55_SkipLast(c) ==
  StoreBytes(c, [a \in 1..c.x |-> c.V[a - 1]], 0)

\* Fx55 - LD [I], Vx
OpFx55(c) ==
  LET r == StoreBytes(c, [a \in 1..(c.x + 1) |-> c.V[a - 1]], 0)
  IN IF r.how = "ok" /\ r.ch.schipMode = FALSE
       THEN Ok([r.ch EXCEPT !.I = U16(r.ch.I + c.x + 1)])
       ELSE r

RECURSIVE LoadRegs(_, _)
\* V[a] = Memory[I+a] for a = i .. x
LoadRegs(c, i) ==
  IF i > c.x THEN Ok(c)
  ELSE IF U16(c.I + i) >= MemSize THEN Res(c, "panic")
  ELSE LoadRegs([c EXCEPT !.V[i] = c.Memory[U16(c.I + i)]], i + 1)

\* Fx65 copying in the direction of Fx55
OpFx65_Store(c) == OpFx55(c)

\* Fx65 - LD Vx, [I]
OpFx65(c) ==
  LET r == LoadRegs(c, 0)
  IN IF r.how = "ok" /\ r.ch.schipMode = FALSE
       THEN Ok([r.ch EXCEPT !.I = U16(r.ch.I + c.x + 1)])
       ELSE r

\* case 0xF000: the switch is on kk
OpFxkk(c) ==
  CASE c.kk = 7   -> OpFx07(c)
    [] c.kk = 10  -> OpFx0A(c)
    [] c.kk = 21  -> OpFx15(c)
    [] c.kk = 24  -> OpFx18(c)
    [] c.kk = 30  -> OpFx1E(c)
    [] c.kk = 41  -> OpFx29(c)
    [] c.kk = 51  -> OpFx33(c)
    [] c.kk = 85  -> OpFx55(c)
    [] c.kk = 101 -> OpFx65(c)
    [] OTHER      -> UnknownOpcode(c)

\* switch ch.opcode & 0xF000
executeOpcode(c, rnd) ==
  LET hi == And16(c.opcode, 61440) \div 4096
  IN CASE hi = 0  -> Op0nnn(c)
       [] hi = 1  -> Op1nnn(c)
       [] hi = 2  -> Op2nnn(c)
       [] hi = 3  -> Op3xkk(c)
       [] hi = 4  -> Op4xkk(c)
       [] hi = 5  -> Op5xy0(c)
       [] hi = 6  -> Op6xkk(c)
       [] hi = 7  -> Op7xkk(c)
       [] hi = 8  -> Op8xyn(c)
       [] hi = 9  -> Op9xy0(c)
       [] hi = 10 -> OpAnnn(c)
       [] hi = 11 -> OpBnnn(c)
       [] hi = 12 -> OpCxkk(c, rnd)
       [] hi = 13 -> OpDxyn(c)
       [] hi = 14 -> OpExkk(c)
       [] OTHER   -> OpFxkk(c)

(***************************************************************************)
(* decrementTimers, one operator for each statement: the clock goroutine   *)
(* runs them one at a time (clk.pc), the cycle goroutine may run between.  *)
(***************************************************************************)
\* if ch.ST > 0
TestST(c) == c.ST > 0

\* ch.ST--
DecST(c) == [c EXCEPT !.ST = U8(c.ST - 1)]

\* if ch.ST == 0 && ch.beepCallback != nil { ch.beepCallback(false) }
BeepOff(c) == c.ST = 0 /\ c.beepCallback

\* a test of DT that never passes: the delay timer stands still
TestDT_Never(c) == FALSE

\* a test of DT that always passes
TestDT_Always(c) == TRUE

\* if ch.DT > 0
TestDT(c) == c.DT > 0

\* ch.DT--
DecDT(c) == [c EXCEPT !.DT = U8(c.DT - 1)]

(***************************************************************************)
(* KeyDown, KeyUp, SetBeepHandler, Pause, Resume                           *)
(***************************************************************************)
KeyDown(c, key) ==
  LET c1 == [c EXCEPT !.lastKey = <<key>>]
  IN IF key >= NumKeys THEN Res(c1, "panic")
     ELSE Ok([c1 EXCEPT !.keyboard[key] = TRUE])

KeyUp(c, key) ==
  IF key >= NumKeys THEN Res(c, "panic")
  ELSE Ok([c EXCEPT !.keyboard[key] = FALSE])

SetBeepHandler(c) == [c EXCEPT !.beepCallback = TRUE]

\* Pause that engages a new gate whether or not one is engaged
Pause_Reengage(c, h) ==
  [ch |-> [c EXCEPT !.wg = <<Len(h) + 1>>], wgs |-> Append(h, 1), how |-> "ok"]

\* Pause: a gate that is engaged is left alone; otherwise a new WaitGroup
\* with counter 1 is allocated in the heap h and ch.wg points to it
Pause(c, h) ==
  IF c.wg # <<>> THEN [ch |-> c, wgs |-> h, how |-> "ok"]
  ELSE [ch |-> [c EXCEPT !.wg = <<Len(h) + 1>>], wgs |-> Append(h, 1), how |-> "ok"]

\* Resume: ch.wg.Done() dereferences ch.wg, nil or not; then ch.wg = nil
Resume(c, h) ==
  IF c.wg = <<>> THEN [ch |-> c, wgs |-> h, how |-> "panic"]
  ELSE [ch |-> [c EXCEPT !.wg = <<>>],
        wgs |-> [h EXCEPT ![c.wg[1]] = h[c.wg[1]] - 1],
        how |-> "ok"]

(***************************************************************************)
(* State                                                                   *)
(***************************************************************************)
VARIABLES
  ch,       \* the Chip8 struct (emu of main)
  wgs,      \* heap of sync.WaitGroup counters, one for each Pause that engaged
  main,     \* position of main: "Initialize", "LoadRom", "setup", "loop"
  cyc,      \* cycle goroutine of main: [pc, wg]; wg: the WaitGroup it waits on
  clk,      \* clock goroutine of startClock: [pc, wg]
  fault,    \* "none", or the run-time panic that ended the process
  err,      \* TRUE when EmulateCycle has returned an unknown-opcode error
  beep,     \* the argument of the beep callback call made by the last step
  sinkOn,   \* the last argument delivered to the beep sink
  paused    \* the local variable paused of main

vars == <<ch, wgs, main, cyc, clk, fault, err, beep, sinkOn, paused>>

\* the process runs: no goroutine has panicked, log.Fatalf has not exited
Alive == fault = "none" /\ cyc.pc # "exited"

Init ==
  /\ ch = Chip8
  /\ wgs = <<>>
  /\ main = "Initialize"
  /\ cyc = [pc |-> "off", wg |-> <<>>]
  /\ clk = [pc |-> "off", wg |-> <<>>]
  /\ fault = "none"
  /\ err = FALSE
  /\ beep = <<>>
  /\ sinkOn = <<>>
  /\ paused = FALSE

\* a call of the beep callback (ui.Beep) with argument b
Deliver(b) == beep' = b /\ sinkOn' = IF b = <<>> THEN sinkOn ELSE b

Quiet == Deliver(<<>>)

(***************************************************************************)
(* main: Initialize, LoadRom, SetBeepHandler, start of the cycle goroutine *)
(***************************************************************************)
MainInitialize ==
  /\ Alive /\ main = "Initialize"
  /\ ch' = Initialize(ch)
  /\ clk' = [clk EXCEPT !.pc = "gate"]
  /\ main' = "LoadRom"
  /\ Quiet
  /\ UNCHANGED <<wgs, cyc, fault, err, paused>>

MainLoadRom(roms) ==
  /\ Alive /\ main = "LoadRom"
  /\ \E rom \in roms :
       LET r == LoadRomBytes(ch, rom)
       IN /\ ch' = r.ch
          /\ fault' = IF r.how = "panic" THEN "index out of range" ELSE fault
  /\ main' = "setup"
  /\ Quiet
  /\ UNCHANGED <<wgs, cyc, clk, err, paused>>

MainSetBeepHandler ==
  /\ Alive /\ main = "setup" /\ ~ch.beepCallback
  /\ ch' = SetBeepHandler(ch)
  /\ Quiet
  /\ UNCHANGED <<wgs, main, cyc, clk, fault, err, paused>>

MainStart ==
  /\ Alive /\ main = "setup"
  /\ main' = "loop"
  /\ cyc' = [cyc EXCEPT !.pc = "fetch"]
  /\ Quiet
  /\ UNCHANGED <<ch, wgs, clk, fault, err, paused>>

(***************************************************************************)
(* main: the UI loop                                                       *)
(***************************************************************************)
\* if emu.DrawFlag { ui.Draw(emu.Screen); emu.DrawFlag = false }
UIRender ==
  /\ Alive /\ main = "loop" /\ ch.DrawFlag
  /\ ch' = [ch EXCEPT !.DrawFlag = FALSE]
  /\ Quiet
  /\ UNCHANGED <<wgs, main, cyc, clk, fault, err, paused>>

UIKeyDown(keys) ==
  /\ Alive /\ main = "loop"
  /\ \E k \in keys :
       LET r == KeyDown(ch, k)
       IN /\ ch' = r.ch
          /\ fault' = IF r.how = "panic" THEN "index out of range" ELSE fault
  /\ Quiet
  /\ UNCHANGED <<wgs, main, cyc, clk, err, paused>>

UIKeyUp(keys) ==
  /\ Alive /\ main = "loop"
  /\ \E k \in keys :
       LET r == KeyUp(ch, k)
       IN /\ ch.keyboard[k]
          /\ ch' = r.ch
          /\ fault' = IF r.how = "panic" THEN "index out of range" ELSE fault
  /\ Quiet
  /\ UNCHANGED <<wgs, main, cyc, clk, err, paused>>

\* case sdl.K_p: if !paused { emu.Pause(); paused = true }
UIPauseKey ==
  /\ Alive /\ main = "loop" /\ ~paused
  /\ Len(wgs) < MaxPauses
  /\ LET r == Pause(ch, wgs)
     IN ch' = r.ch /\ wgs' = r.wgs
  /\ paused' = TRUE
  /\ Quiet
  /\ UNCHANGED <<main, cyc, clk, fault, err>>

\* case sdl.K_o: if paused { emu.Resume(); paused = false }
UIResumeKey ==
  /\ Alive /\ main = "loop" /\ paused
  /\ LET r == Resume(ch, wgs)
     IN /\ ch' = r.ch /\ wgs' = r.wgs
        /\ fault' = IF r.how = "panic" THEN "nil pointer dereference" ELSE fault
  /\ paused' = FALSE
  /\ Quiet
  /\ UNCHANGED <<main, cyc, clk, err>>

(***************************************************************************)
(* A caller of the package that calls Pause and Resume in any order        *)
(***************************************************************************)
ApiPause ==
  /\ Alive /\ main = "loop"
  /\ Len(wgs) < MaxPauses \/ ch.wg # <<>>
  /\ LET r == Pause(ch, wgs)
     IN ch' = r.ch /\ wgs' = r.wgs
  /\ Quiet
  /\ UNCHANGED <<main, cyc, clk, fault, err, paused>>

ApiResume ==
  /\ Alive /\ main = "loop"
  /\ LET r == Resume(ch, wgs)
     IN /\ ch' = r.ch /\ wgs' = r.wgs
        /\ fault' = IF r.how = "panic" THEN "nil pointer dereference" ELSE fault
  /\ Quiet
  /\ UNCHANGED <<main, cyc, clk, err, paused>>

(***************************************************************************)
(* The pause gate as a goroutine passes it:                                *)
(*   if ch.wg != nil { ch.wg.Wait() }                                      *)
(* The test reads ch.wg, the call reads it again; Wait returns when the    *)
(* counter of the WaitGroup is zero.                                       *)
(***************************************************************************)
\* if ch.wg != nil
GateTest(g, c, next) ==
  [g EXCEPT !.pc = IF c.wg # <<>> THEN "callwait" ELSE next]

\* ch.wg.Wait(): the call on the pointer read now
GateCall(g, c) ==
  IF c.wg = <<>> THEN [g |-> g, how |-> "panic"]
  ELSE [g |-> [g EXCEPT !.pc = "waiting", !.wg = c.wg], how |-> "ok"]

\* Wait returns
GateOpen(g, h) == h[g.wg[1]] = 0

(***************************************************************************)
(* The cycle goroutine: for { emu.EmulateCycle(); ... }                    *)
(***************************************************************************)
CycFetch ==
  /\ Alive /\ cyc.pc = "fetch"
  /\ LET r == fetchOpcode(ch)
     IN /\ ch' = r.ch
        /\ fault' = IF r.how = "panic" THEN "index out of range" ELSE fault
        /\ cyc' = IF r.how = "panic" THEN cyc ELSE [cyc EXCEPT !.pc = "gate"]
  /\ Quiet
  /\ UNCHANGED <<wgs, main, clk, err, paused>>

CycGate ==
  /\ Alive /\ cyc.pc = "gate"
  /\ cyc' = GateTest(cyc, ch, "exec")
  /\ Quiet
  /\ UNCHANGED <<ch, wgs, main, clk, fault, err, paused>>

CycWait ==
  /\ Alive /\ cyc.pc = "callwait"
  /\ LET r == GateCall(cyc, ch)
     IN /\ cyc' = r.g
        /\ fault' = IF r.how = "panic" THEN "nil pointer dereference" ELSE fault
  /\ Quiet
  /\ UNCHANGED <<ch, wgs, main, clk, err, paused>>

CycWake ==
  /\ Alive /\ cyc.pc = "waiting" /\ GateOpen(cyc, wgs)
  /\ cyc' = [pc |-> "exec", wg |-> <<>>]
  /\ Quiet
  /\ UNCHANGED <<ch, wgs, main, clk, fault, err, paused>>

\* what a pass of executeOpcode leaves: the struct, the beep, and where the
\* goroutine goes (on an error main calls log.Fatalf, which exits)
Executed(r) ==
  /\ ch' = r.ch
  /\ Deliver(r.beep)
  /\ fault' = IF r.how = "panic" THEN "executeOpcode panic" ELSE fault
  /\ err' = (r.how = "err")
  /\ cyc' = [cyc EXCEPT !.pc = CASE r.how = "ok"    -> "fetch"
                                 [] r.how = "err"   -> "exited"
                                 [] r.how = "block" -> "waitkey"
                                 [] OTHER           -> cyc.pc]
  /\ UNCHANGED <<wgs, main, clk, paused>>

CycExec(rnds) ==
  /\ Alive /\ cyc.pc = "exec"
  /\ \E rnd \in (IF ch.opcode \div 4096 = 12 THEN rnds ELSE {0}) :
       Executed(executeOpcode(ch, rnd))

\* Fx0A: the next pass of the polling loop that finds a key
CycPoll ==
  /\ Alive /\ cyc.pc = "waitkey" /\ ch.lastKey # <<>>
  /\ Executed(OpFx0A(ch))

(***************************************************************************)
(* The clock goroutine: for { gate; decrementTimers(); sleep }             *)
(***************************************************************************)
ClkGate ==
  /\ Alive /\ clk.pc = "gate"
  /\ clk' = GateTest(clk, ch, "st_test")
  /\ Quiet
  /\ UNCHANGED <<ch, wgs, main, cyc, fault, err, paused>>

ClkWait ==
  /\ Alive /\ clk.pc = "callwait"
  /\ LET r == GateCall(clk, ch)
     IN /\ clk' = r.g
        /\ fault' = IF r.how = "panic" THEN "nil pointer dereference" ELSE fault
  /\ Quiet
  /\ UNCHANGED <<ch, wgs, main, cyc, err, paused>>

ClkWake ==
  /\ Alive /\ clk.pc = "waiting" /\ GateOpen(clk, wgs)
  /\ clk' = [pc |-> "st_test", wg |-> <<>>]
  /\ Quiet
  /\ UNCHANGED <<ch, wgs, main, cyc, fault, err, paused>>

ClkTestST ==
  /\ Alive /\ clk.pc = "st_test"
  /\ clk' = [clk EXCEPT !.pc = IF TestST(ch) THEN "st_dec" ELSE "dt_test"]
  /\ Quiet
  /\ UNCHANGED <<ch, wgs, main, cyc, fault, err, paused>>

ClkDecST ==
  /\ Alive /\ clk.pc = "st_dec"
  /\ ch' = DecST(ch)
  /\ clk' = [clk EXCEPT !.pc = "st_beep"]
  /\ Quiet
  /\ UNCHANGED <<wgs, main, cyc, fault, err, paused>>

ClkBeepOff ==
  /\ Alive /\ clk.pc = "st_beep"
  /\ Deliver(IF BeepOff(ch) THEN <<FALSE>> ELSE <<>>)
  /\ clk' = [clk EXCEPT !.pc = "dt_test"]
  /\ UNCHANGED <<ch, wgs, main, cyc, fault, err, paused>>

ClkTestDT ==
  /\ Alive /\ clk.pc = "dt_test"
  /\ clk' = [clk EXCEPT !.pc = IF TestDT(ch) THEN "dt_dec" ELSE "gate"]
  /\ Quiet
  /\ UNCHANGED <<ch, wgs, main, cyc, fault, err, paused>>

ClkDecDT ==
  /\ Alive /\ clk.pc = "dt_dec"
  /\ ch' = DecDT(ch)
  /\ clk' = [clk EXCEPT !.pc = "gate"]
  /\ Quiet
  /\ UNCHANGED <<wgs, main, cyc, fault, err, paused>>

(***************************************************************************)
(* ROM images and inputs                                                   *)
(***************************************************************************)
\* the bytes of a program given as its 16-bit instruction words
Rom(ops) == [i \in 1..(2 * Len(ops)) |->
               IF i % 2 = 1 THEN ops[(i + 1) \div 2] \div Byte
                            ELSE ops[i \div 2] % Byte]

\* DT = 2; wait for a key; loop
RomKeyWait == Rom(<<\h6102, \hF115, \hF00A, \h1200>>)

\* ST = 1 (beep); draw one row; an unmapped instruction
RomBeep == Rom(<<\h6101, \hF118, \hD001, \hFFFF>>)

ConcRoms == {RomKeyWait, RomBeep}

ConcKeys == {5}

RandBytes == {0, \h5A, \hFF}

\* Instruction words tried after the prologue V0 = 5, VF = 0x81, I = 0x2F0
IsaOps ==
  {\h0000, \h00E0, \h00EE, \h01E0, \h0FEE, \h00E1, \h00FF,
   \h1208, \h2208, \h3005, \h3006, \h4005, \h4006,
   \h5000, \h50F0, \h50F1, \h500F, \h61AA, \h6F00, \h70FF, \h7F7F,
   \h9000, \h90F0, \h90F1, \h900F, \hA123, \hB300, \hC0FF, \hCF0F,
   \hD001, \hD0F2, \hD00F, \hD000,
   \hE09E, \hE0A1, \hEF9E, \hEFA1, \hE000, \hE09F, \hE0A0, \hE0FF}
  \cup {\h8000 + 256 * x + 16 * y + n : x \in {0, 15}, y \in {1, 15}, n \in 0..15}

\* Instruction words that use I, tried with I at each address of IsaIs
MemOps ==
  {\hF000 + 256 * x + kk : x \in {0, 15},
                            kk \in {\h07, \h0A, \h15, \h18, \h1E, \h29, \h33, \h55, \h65,
                                    \h00, \h34, \h56, \hFF}}
  \cup {\hD003}

IsaIs == {\h04F, \h050, \h2F0, \hFFE}

\* 16 nested subroutines: subroutine i is <<CALL subroutine i+1, RET>>, the
\* innermost a single RET; the word after the outermost call is unmapped
RomNest16 ==
  Rom([i \in 1..33 |-> IF i = 2 THEN \h0000
                       ELSE IF i % 2 = 1 /\ i < 33 THEN \h2200 + 2 * (i + 1)
                       ELSE \h00EE])

\* V1 = 123, I = 0x300, BCD of V1, draw the glyph of 0 at (0, 0), clear
RomBcdDraw == Rom(<<\h617B, \hA300, \hF133, \hA050, \hD005, \hD005, \h00E0, \hD00F>>)

\* V0 = a, V1 = b, then SUB or SUBN V0, V1: operands equal, less and greater
SubRoms ==
  {Rom(<<\h6000 + a, \h6100 + b, op>>) : a \in {1, 2}, b \in {1, 2},
                                         op \in {\h8015, \h8017}}

\* the first row of glyph 0 drawn twice: at the same place; at a place
\* that overlaps in part; at a place that does not overlap; and five rows
\* drawn twice across the right and the bottom edge (Vx = 253, Vy = 254)
DrawRoms ==
  {Rom(<<\hA050, \hD011, \hD011>>),
   Rom(<<\hA050, \hD011, \h6002, \hD011>>),
   Rom(<<\hA050, \hD001, \h6002, \hD001>>),
   Rom(<<\h60FD, \h61FE, \hA050, \hD015, \hD015>>)}

\* registers set, stored with Fx55, cleared, loaded with Fx65: V0..V2 at
\* 0x300 with V3 above them, and V0..VF at 0xFF0, the last 16 bytes of Memory
RoundTripRoms ==
  {Rom(<<\h60AA, \h6155, \h62FF, \h6377, \hA300, \hF255,
         \h6000, \h6100, \h6200, \hF265>>),
   Rom(<<\h60AA, \h6755, \h6FFF, \hAFF0, \hFF55,
         \h6000, \h6700, \h6F00, \hFF65>>)}

\* a subroutine called and left, and two nested ones; the word after the
\* instruction returned to is unmapped
CallRoms ==
  {Rom(<<\h2206, \h6A01, \hFFFF, \h00EE>>),
   Rom(<<\h2206, \h6A01, \hFFFF, \h220A, \h00EE, \h00EE>>)}

\* a timer set to 2 and then to 0 by the program while the clock ticks
TimerWriteRoms ==
  {Rom(<<\h6102, \hF115, \h6100, \hF115>>),
   Rom(<<\h6102, \hF118, \h6100, \hF118>>)}

\* jumps to the last byte of Memory, to its last word, and past its end
HighJumpRoms ==
  {Rom(<<\h1FFF>>), Rom(<<\h1FFE>>), Rom(<<\h60FF, \hBFFF>>)}

\* an image that fills Memory from 0x200 to its end, and one a byte longer;
\* no byte of them is 0, the first instruction word is unmapped
RomFull == [i \in 1..(MemSize - RomBase) |-> (i % 255) + 1]

RomOversize == [i \in 1..(MemSize - RomBase + 1) |-> (i % 255) + 1]

IsaRoms ==
  {Rom(<<\h6005, \h6F81, \hA2F0, op>>) : op \in IsaOps}
  \cup {Rom(<<\h6005, \h6F81, \hA000 + i, op>>) : i \in IsaIs, op \in MemOps}
  \cup {RomNest16, RomBcdDraw}
  \cup SubRoms \cup DrawRoms \cup RoundTripRoms
  \cup {RomFull, RomOversize} \cup CallRoms \cup TimerWriteRoms
  \cup HighJumpRoms

IsaKeys == {5}

\* the delay of the timer programs: one second of ticks
DelayTicks == 60

\* DT = 60, then wait for a key: the clock ticks while the cycle waits
RomDelay == Rom(<<\h6000 + DelayTicks, \hF015, \hF10A>>)

\* ST = 3 (beep), draw a row, wait for a key, read DT
RomSound == Rom(<<\h6003, \hF018, \hA050, \hD001, \hF10A, \hF207>>)

TimerRoms == {RomDelay, RomSound}

TimerKeys == {5}

(***************************************************************************)
(* Specification: main, the cycle and clock goroutines, and the UI loop of *)
(* main, which draws, takes key events and pauses and resumes              *)
(***************************************************************************)
Setup ==
  \/ MainInitialize
  \/ MainSetBeepHandler
  \/ MainStart

Cycle ==
  \/ CycFetch
  \/ CycGate
  \/ CycExec(RandBytes)
  \/ CycPoll

Clock ==
  \/ ClkGate
  \/ ClkTestST
  \/ ClkDecST
  \/ ClkBeepOff
  \/ ClkTestDT
  \/ ClkDecDT

Gated ==
  \/ CycWait
  \/ CycWake
  \/ ClkWait
  \/ ClkWake

Next ==
  \/ Setup
  \/ MainLoadRom(ConcRoms)
  \/ UIRender
  \/ UIKeyDown(ConcKeys)
  \/ UIKeyUp(ConcKeys)
  \/ UIPauseKey
  \/ UIResumeKey
  \/ Cycle
  \/ Clock
  \/ Gated

Spec == Init /\ [][Next]_vars

\* The Go scheduler runs a goroutine that can take a step: the sleeps of
\* both loops end and Wait returns once the counter is zero. For the step of
\* executeOpcode this is weak fairness written by its states: the step is
\* enabled exactly while the process runs with the cycle at "exec" (the
\* switch returns for every opcode) and every such step leaves those states.
ClockFair == WF_vars(Clock \/ ClkWait \/ ClkWake)

CycleFair == WF_vars(CycFetch \/ CycGate \/ CycPoll \/ CycWait \/ CycWake)

ExecFair == []<>~(Alive /\ cyc.pc = "exec")

SpecFair == Spec /\ ClockFair /\ CycleFair /\ ExecFair

(***************************************************************************)
(* Specification: the same machine under a caller that calls Pause and     *)
(* Resume in any order                                                     *)
(***************************************************************************)
NextApi ==
  \/ Setup
  \/ MainLoadRom(ConcRoms)
  \/ UIRender
  \/ UIKeyDown(ConcKeys)
  \/ ApiPause
  \/ ApiResume
  \/ Cycle
  \/ Clock
  \/ Gated

SpecApi == Init /\ [][NextApi]_vars

(***************************************************************************)
(* Specification: the instruction set, one ROM of IsaRoms run to its end   *)
(* with the gate never engaged                                             *)
(***************************************************************************)
NextIsa ==
  \/ Setup
  \/ MainLoadRom(IsaRoms)
  \/ UIRender
  \/ UIKeyDown(IsaKeys)
  \/ Cycle
  \/ Clock

SpecIsa == Init /\ [][NextIsa]_vars

(***************************************************************************)
(* Specification: the timers, a ROM of TimerRoms run with the gate never   *)
(* engaged; SpecTimerFair adds that the Go scheduler runs the clock        *)
(* goroutine whenever it can take a step (its time.Sleep ends)             *)
(***************************************************************************)
NextTimer ==
  \/ Setup
  \/ MainLoadRom(TimerRoms)
  \/ UIRender
  \/ UIKeyDown(TimerKeys)
  \/ Cycle
  \/ Clock

SpecTimer == Init /\ [][NextTimer]_vars

SpecTimerFair == SpecTimer /\ WF_vars(Clock)

(***************************************************************************)
(* Properties                                                              *)
(***************************************************************************)
\* the machine state of the pause contract
MachineState(c) == <<c.PC, c.V, c.I, c.SP, c.Stack, c.Memory, c.Screen, c.DT, c.ST>>

\* everything of the struct but PC and the decoded instruction fields
Frame(c) == <<c.V, c.I, c.SP, c.Stack, c.Memory, c.Screen, c.DT, c.ST,
              c.DrawFlag, c.keyboard, c.lastKey>>

\* a step of executeOpcode in the cycle goroutine
ExecStep == CycExec(RandBytes)

Hi(op) == op \div 4096

\* C1: while the gate stays engaged (Pause has returned, Resume has not been
\* called), no step changes PC, V, I, SP, Stack, Memory, Screen, DT or ST.
C1_PausedNoMutation ==
  [][(ch.wg # <<>> /\ ch'.wg # <<>>) => MachineState(ch') = MachineState(ch)]_vars

\* C2: Resume called with the gate not engaged is a no-op: no panic, the
\* struct and the WaitGroups stay as they were.
C2_ResumeNotPausedNoop ==
  [][(ApiResume /\ ch.wg = <<>>) => (fault' = "none" /\ ch' = ch /\ wgs' = wgs)]_vars

\* C3: while the cycle goroutine polls in Fx0A and the gate stays engaged, no
\* step writes a register or consumes the last-key slot.
C3_KeyWaitHeldByPause ==
  [][(cyc.pc = "waitkey" /\ ch.wg # <<>> /\ ch'.wg # <<>>)
       => (ch'.V = ch.V /\ (ch.lastKey # <<>> => ch'.lastKey # <<>>))]_vars

\* the opcodes that match no pattern of the dispatch table
Unmapped(op) ==
  LET n  == op % 16
      kk == op % Byte
  IN \/ Hi(op) = 0 /\ op \notin {\h00E0, \h00EE}
     \/ Hi(op) \in {5, 9} /\ n # 0
     \/ Hi(op) = 8 /\ n \notin (0..7) \cup {14}
     \/ Hi(op) = 14 /\ kk \notin {\h9E, \hA1}
     \/ Hi(op) = 15 /\ kk \notin {\h07, \h0A, \h15, \h18, \h1E, \h29, \h33, \h55, \h65}

\* C4: the fetch advances PC by 2, and the execution of an opcode that
\* matches no dispatch pattern returns the unknown-opcode error and leaves
\* PC at the fetched value.
C4_UnmappedFails ==
  [][/\ (CycFetch /\ fault' = "none") => ch'.PC = U16(ch.PC + 2)
     /\ (ExecStep /\ Unmapped(ch.opcode)) => (err' /\ fault' = "none" /\ ch'.PC = ch.PC)]_vars

\* C5: in a cycle that returns the unknown-opcode error, the fetch, the gate
\* test and the execution leave V, I, SP, Stack, Memory, Screen, DT, ST,
\* DrawFlag and the keyboard latch as they were.
C5_ErrorFrame ==
  [][(CycFetch \/ CycGate \/ (err' /\ ExecStep)) => Frame(ch') = Frame(ch)]_vars

\* C5 witness: the cycle has returned the error for 8xy8 with VF = 0x81 and
\* a key latched
C5_Witness ==
  err /\ ch.opcode = \h80F8 /\ ch.V[15] = \h81 /\ ch.lastKey # <<>>

AllOff(screen) ==
  \A sx \in 0..(ScreenCols - 1) : \A sy \in 0..(ScreenRows - 1) : screen[sx][sy] = 0

\* C6: the execution of 00E0 leaves every pixel off and DrawFlag set.
C6_ClsClearsAndFlags ==
  [][(ExecStep /\ ch.opcode = \h00E0) => (AllOff(ch'.Screen) /\ ch'.DrawFlag)]_vars

\* C7: a 2nnn executed with no slot left and a 00EE executed with SP = 0 end
\* in a fault, and no execution goes on with SP outside 0..15.
C7_StackFaults ==
  [][ExecStep =>
       /\ (Hi(ch.opcode) = 2 /\ ch.SP >= StackSize - 1) => fault' # "none"
       /\ (ch.opcode = \h00EE /\ ch.SP = 0) => fault' # "none"
       /\ fault' = "none" => ch'.SP \in 0..(StackSize - 1)]_vars

\* C8: with fewer than 16 calls outstanding a 2nnn succeeds and saves its
\* return address, and a 00EE returns to the address the latest outstanding
\* call saved.
C8_SixteenLevels ==
  [][ExecStep =>
       /\ (Hi(ch.opcode) = 2 /\ ch.SP < StackSize)
            => (fault' = "none" /\ ch'.SP = ch.SP + 1 /\ ch'.PC = ch.nnn
                /\ ch'.Stack[ch'.SP] = ch.PC)
       /\ (ch.opcode = \h00EE /\ ch.SP \in 1..(StackSize - 1))
            => (ch'.PC = ch.Stack[ch.SP] /\ ch'.SP = ch.SP - 1)]_vars

FontRegion == FontBase..(FontBase + Len(fontSet) - 1)

FontIntact(c) == \A a \in FontRegion : c.Memory[a] = fontSet[a - FontBase + 1]

\* C9 as claimed: once Initialize has run, the font region holds the glyphs
\* in every state.
C9_FontNeverOverwritten == main # "Initialize" => FontIntact(ch)

\* C9 amended: Initialize leaves the glyphs in the font region, and a byte of
\* the region is changed only by Initialize, by Fx33 with the byte in I..I+2
\* and by Fx55 with the byte in I..I+x.
C9_FontOnlyByStores ==
  [][/\ MainInitialize => FontIntact(ch')
     /\ \A a \in FontRegion :
          ch'.Memory[a] # ch.Memory[a] =>
            \/ MainInitialize
            \/ /\ ExecStep /\ Hi(ch.opcode) = 15
               /\ \/ ch.kk = \h33 /\ a \in ch.I..(ch.I + 2)
                  \/ ch.kk = \h55 /\ a \in ch.I..(ch.I + ch.x)]_vars

\* C9 witness: F033 has stored the digits of V0 = 5 at 0x2F0 and FF55 the
\* registers at 0x2F0.., next to an intact font region
C9_Witness ==
  /\ cyc.pc = "fetch" /\ ch.opcode \in {\hF033, \hFF55} /\ ch.I = \h2F0
  /\ ch.Memory[\h2F2] = IF ch.opcode = \hF033 THEN 5 ELSE 0
  /\ ch.Memory[\h2F0] = IF ch.opcode = \hF033 THEN 0 ELSE 5
  /\ FontIntact(ch)

\* C10: 8xy4 with x # F leaves Vx = (Vx + Vy) mod 256 and VF = the carry, for
\* every y.
C10_AddCarry ==
  [][(ExecStep /\ Hi(ch.opcode) = 8 /\ ch.n = 4 /\ ch.x # 15)
       => /\ ch'.V[ch.x] = (ch.V[ch.x] + ch.V[ch.y]) % Byte
          /\ ch'.V[15] = IF ch.V[ch.x] + ch.V[ch.y] > 255 THEN 1 ELSE 0]_vars

\* C11: 8xy5 with x # F and y # F leaves Vx = (Vx - Vy) mod 256 and VF = 1
\* exactly when Vx >= Vy; 8xy7 leaves Vx = (Vy - Vx) mod 256 and VF = 1
\* exactly when Vy >= Vx (old values; equal operands give VF = 1).
C11_SubNotBorrow ==
  [][(ExecStep /\ Hi(ch.opcode) = 8 /\ ch.x # 15 /\ ch.y # 15)
       => /\ ch.n = 5 => /\ ch'.V[ch.x] = (ch.V[ch.x] - ch.V[ch.y]) % Byte
                         /\ ch'.V[15] = IF ch.V[ch.x] >= ch.V[ch.y] THEN 1 ELSE 0
          /\ ch.n = 7 => /\ ch'.V[ch.x] = (ch.V[ch.y] - ch.V[ch.x]) % Byte
                         /\ ch'.V[15] = IF ch.V[ch.y] >= ch.V[ch.x] THEN 1 ELSE 0]_vars

\* a set bit of the sprite at Memory[I .. I+n-1] lies on a pixel that is on
Collides(c) ==
  \E byteInd \in 0..(c.n - 1), bitInd \in 0..7 :
    /\ (c.Memory[c.I + byteInd] \div Pow2(bitInd)) % 2 = 1
    /\ c.Screen[((c.V[c.x] + 7 - bitInd) % Byte) % ScreenCols]
                [((c.V[c.y] + byteInd) % Byte) % ScreenRows] = 1

\* C12: after Dxyn, VF = 1 if and only if a set bit of the sprite landed on a
\* pixel that was on before the draw, else VF = 0 (the sprite lies in Memory).
C12_Collision ==
  [][(ExecStep /\ Hi(ch.opcode) = 13 /\ ch.I + ch.n <= MemSize)
       => /\ fault' = "none"
          /\ ch'.V[15] = IF Collides(ch) THEN 1 ELSE 0]_vars

\* the second draw of the same row at the same place has reported the
\* collision and erased the row
C12_Witness ==
  /\ cyc.pc = "fetch" /\ ch.opcode = \hD011 /\ ch.PC = RomBase + 6
  /\ ch.V[15] = 1 /\ AllOff(ch.Screen)

\* the registers after Fx55 from c, V0..Vx set to 0, and Fx65 with I at the
\* address the store used
RoundTrip(c) ==
  LET stored  == OpFx55(c).ch
      cleared == [stored EXCEPT !.V = [i \in 0..(NumRegs - 1) |->
                                         IF i <= c.x THEN 0 ELSE stored.V[i]],
                                !.I = c.I]
  IN OpFx65(cleared)

\* C13: for I + x <= 0xFFF, Fx55, clearing V0..Vx and Fx65 at the same I
\* restore V0..Vx; neither instruction changes a register above Vx.
C13_RoundTrip ==
  [][(ExecStep /\ Hi(ch.opcode) = 15 /\ ch.I + ch.x <= MemSize - 1)
       => /\ ch.kk = \h55 =>
               /\ fault' = "none" /\ ch'.V = ch.V
               /\ \A a \in 0..ch.x : ch'.Memory[ch.I + a] = ch.V[a]
               /\ RoundTrip(ch).how = "ok" /\ RoundTrip(ch).ch.V = ch.V
          /\ ch.kk = \h65 =>
               /\ fault' = "none"
               /\ \A a \in 0..(NumRegs - 1) :
                    ch'.V[a] = IF a <= ch.x THEN ch.Memory[ch.I + a] ELSE ch.V[a]]_vars

\* the program that stores V0..V2 = AA 55 FF, clears them and loads them has
\* them back, with V3 as it was
C13_Witness ==
  /\ cyc.pc = "fetch" /\ ch.opcode = \hF265 /\ ch.PC = RomBase + 20
  /\ ch.V[0] = \hAA /\ ch.V[1] = \h55 /\ ch.V[2] = \hFF /\ ch.V[3] = \h77
  /\ ch.Memory[ch.I + 2] = \hFF

\* C14: a tick takes DT from d to max(d - 1, 0) and ST likewise when the
\* cycle does not write the timer inside the tick: the test of a timer at 0
\* ends its part of the tick, the test of a timer above 0 is followed by one
\* decrement by 1, and no other step of the clock changes a timer. A timer
\* set to DelayTicks or less never exceeds it (no decrement below 0).
C14_TicksClamp ==
  [][/\ Clock => /\ ch'.DT \in {ch.DT, ch.DT - 1} /\ ch'.ST \in {ch.ST, ch.ST - 1}
                 /\ ch'.DT >= 0 /\ ch'.ST >= 0
     /\ ClkTestDT => /\ ch'.DT = ch.DT
                     /\ clk'.pc = IF ch.DT = 0 THEN "gate" ELSE "dt_dec"
     /\ ClkTestST => /\ ch'.ST = ch.ST
                     /\ clk'.pc = IF ch.ST = 0 THEN "dt_test" ELSE "st_dec"
     /\ (ClkDecDT /\ ch.DT > 0) => (ch'.DT = ch.DT - 1 /\ clk'.pc = "gate")
     /\ (ClkDecST /\ ch.ST > 0) => (ch'.ST = ch.ST - 1 /\ clk'.pc = "st_beep")
     /\ ch'.DT <= DelayTicks /\ ch'.ST <= DelayTicks]_vars

\* DT set to 60 by the program has been ticked down to 0, and a tick at 0
\* has ended with DT = 0
C14_Witness ==
  /\ cyc.pc = "waitkey" /\ ch.opcode = \hF10A /\ ch.V[0] = DelayTicks
  /\ ch.DT = 0 /\ clk.pc = "gate"

\* C15: Fx18 never faults, with or without a registered sink; with a sink
\* registered it is called with true exactly by the Fx18 steps that set ST
\* above 0 and with false exactly by the ticks that have brought ST to 0.
C15_BeepSink ==
  [][/\ (ExecStep /\ Hi(ch.opcode) = 15 /\ ch.kk = \h18) => fault' = "none"
     /\ ch.beepCallback =>
          /\ beep' = <<TRUE>> <=>
                (ExecStep /\ Hi(ch.opcode) = 15 /\ ch.kk = \h18 /\ ch.V[ch.x] > 0)
          /\ beep' = <<FALSE>> <=> (ClkBeepOff /\ ch.ST = 0)
     /\ ~ch.beepCallback => beep' = <<>>]_vars

\* a pass of the polling loop of Fx0A: the first, or a later one
KeyWaitStep == (ExecStep \/ CycPoll) /\ Hi(ch.opcode) = 15 /\ ch.kk = \h0A

\* C16: Fx0A does not complete while the last-key slot is empty; with key k
\* in the slot it completes with Vx = k and the slot empty, and changes no
\* other register (V, I, PC, SP, DT, ST).
C16_KeyWait ==
  [][/\ KeyWaitStep =>
          IF ch.lastKey = <<>>
            THEN ch' = ch /\ cyc'.pc = "waitkey"
            ELSE /\ cyc'.pc = "fetch" /\ fault' = "none"
                 /\ ch'.V = [ch.V EXCEPT ![ch.x] = ch.lastKey[1]]
                 /\ ch'.lastKey = <<>>
                 /\ <<ch'.I, ch'.PC, ch'.SP, ch'.DT, ch'.ST>>
                      = <<ch.I, ch.PC, ch.SP, ch.DT, ch.ST>>
     /\ (cyc.pc = "waitkey" /\ cyc'.pc # "waitkey") => ch.lastKey # <<>>]_vars

\* the wait has ended with the pressed key in V0 and the slot empty
C16_Witness ==
  /\ cyc.pc = "fetch" /\ ch.opcode = \hF00A /\ ch.V[0] = 5
  /\ ch.lastKey = <<>> /\ ch.keyboard[5]

\* C17: while the cycle goroutine waits for a key in Fx0A the clock keeps
\* ticking: a timer above 0 during the wait reaches 0 unless the wait ends
\* first, however long the wait is, and each decrement is by 1.
C17_TicksDuringKeyWait ==
  /\ (cyc.pc = "waitkey" /\ ch.DT > 0) ~> (ch.DT = 0 \/ cyc.pc # "waitkey")
  /\ (cyc.pc = "waitkey" /\ ch.ST > 0) ~> (ch.ST = 0 \/ cyc.pc # "waitkey")
  /\ [][(cyc.pc = "waitkey" /\ cyc'.pc = "waitkey")
          => /\ ch'.DT \in {ch.DT, ch.DT - 1}
             /\ ch'.ST \in {ch.ST, ch.ST - 1}]_vars

\* the cycle waits for a key with no key latched and the clock is at the
\* decrement of a tick
C17_Witness ==
  /\ cyc.pc = "waitkey" /\ ch.lastKey = <<>> /\ ch.opcode = \hF10A
  /\ clk.pc = "dt_dec" /\ ch.DT \in 1..(DelayTicks - 1)

\* Resume has been called while the cycle goroutine, its instruction
\* fetched, and the clock goroutine are both inside Wait
Released ==
  /\ cyc.pc = "waiting" /\ wgs[cyc.wg[1]] = 0
  /\ clk.pc = "waiting" /\ wgs[clk.wg[1]] = 0

\* C18: once Resume has released both goroutines from Wait, the cycle
\* goroutine executes the instruction it had fetched, once and without
\* fetching again, and the clock goroutine performs its tick.
C18_ResumeReleases ==
  /\ Released ~> (cyc.pc \notin {"waiting", "exec"})
  /\ Released ~> (clk.pc = "gate")
  /\ [][/\ (cyc.pc = "waiting" /\ cyc'.pc # "waiting") => (cyc'.pc = "exec" /\ ch' = ch)
        /\ (cyc.pc = "exec" /\ cyc'.pc # "exec") => ExecStep]_vars

\* C19: Pause on a paused machine changes nothing, so the engaged gate
\* always counts 1, and one Resume on a paused machine, after any number of
\* Pause calls, leaves it not paused: ch.wg nil and the waiters released.
C19_PauseIdempotent ==
  /\ [](ch.wg # <<>> => wgs[ch.wg[1]] = 1)
  /\ [][/\ (ApiPause /\ ch.wg # <<>>) => (ch' = ch /\ wgs' = wgs /\ fault' = "none")
        /\ (ApiResume /\ ch.wg # <<>>)
             => (ch'.wg = <<>> /\ wgs'[ch.wg[1]] = 0 /\ fault' = "none")]_vars

\* Resume has released the gate on which the cycle goroutine waits
C19_Witness ==
  /\ ch.wg = <<>> /\ wgs = <<0>> /\ fault = "none"
  /\ cyc.pc = "waiting" /\ cyc.wg = <<1>>

\* images of 6, 3584 and 3585 bytes
LoadCases == SubRoms \cup {RomFull, RomOversize}

\* C20: the load of an image longer than 4096 - 0x200 bytes ends without a
\* fault and leaves Memory as it was (the image is refused); the load of a
\* shorter image stores byte i at Memory[0x200 + i] and changes no other byte.
C20_LoadRom ==
  [][main = "LoadRom" =>
       \A rom \in LoadCases :
         MainLoadRom({rom}) =>
           /\ fault' = "none"
           /\ ch'.Memory =
                IF Len(rom) > MemSize - RomBase THEN ch.Memory
                ELSE [a \in 0..(MemSize - 1) |->
                        IF a \in RomBase..(RomBase + Len(rom) - 1)
                          THEN rom[a - RomBase + 1] ELSE ch.Memory[a]]]_vars

\* the flag of 8xyn, n in {4, 5, 6, 7, E}, from the registers before it:
\* carry, not-borrow, the bit shifted out
AluFlag(c) ==
  CASE c.n = 4  -> IF c.V[c.x] + c.V[c.y] > 255 THEN 1 ELSE 0
    [] c.n = 5  -> IF c.V[c.x] >= c.V[c.y] THEN 1 ELSE 0
    [] c.n = 6  -> c.V[c.x] % 2
    [] c.n = 7  -> IF c.V[c.y] >= c.V[c.x] THEN 1 ELSE 0
    [] c.n = 14 -> c.V[c.x] \div 128

\* C21: after 8xy4, 8xy5, 8xy6, 8xy7 and 8xyE with x = F, VF holds the flag
\* and not the arithmetic result (x # F is stated by C10 and C11).
C21_FlagWinsAtVF ==
  [][(ExecStep /\ Hi(ch.opcode) = 8 /\ ch.n \in {4, 5, 6, 7, 14} /\ ch.x = 15)
       => ch'.V[15] = AluFlag(ch)]_vars

\* the screen the claim states for Dxyn from c: the pixel b columns right of
\* Vx and r rows below Vy, both wrapped, is toggled by bit b (from the most
\* significant one) of sprite row r
Drawn(c) ==
  [sx \in 0..(ScreenCols - 1) |-> [sy \in 0..(ScreenRows - 1) |->
     LET b == (sx - c.V[c.x]) % ScreenCols
         r == (sy - c.V[c.y]) % ScreenRows
     IN IF b < 8 /\ r < c.n
          THEN (c.Screen[sx][sy] + (c.Memory[c.I + r] \div Pow2(7 - b))) % 2
          ELSE c.Screen[sx][sy]]]

\* C22: Dxyn with its sprite inside Memory toggles exactly the pixels under
\* the set bits of the sprite, with wrap-around in both directions, and sets
\* DrawFlag, for n = 0 too.
C22_DrawPixels ==
  [][(ExecStep /\ Hi(ch.opcode) = 13 /\ ch.I + ch.n <= MemSize)
       => (ch'.Screen = Drawn(ch) /\ ch'.DrawFlag /\ fault' = "none")]_vars

\* glyph 0 drawn at (253, 254) has wrapped to the left and the top edge
C22_Witness ==
  /\ cyc.pc = "fetch" /\ ch.opcode = \hD015 /\ ch.PC = RomBase + 8
  /\ ch.V[0] = 253 /\ ch.V[1] = 254 /\ ch.V[15] = 0
  /\ ch.Screen[61][30] = 1 /\ ch.Screen[0][30] = 1 /\ ch.Screen[1][30] = 0
  /\ ch.Screen[61][0] = 1 /\ ch.Screen[62][0] = 0 /\ ch.Screen[0][2] = 1

\* C23: the fetch of a 2nnn at address a leaves PC = a + 2; its execution
\* (below the depth at which the call faults) leaves PC = nnn with a + 2 on
\* top of the stack, and a 00EE executed next leaves PC = a + 2 and SP as it
\* was before the call; 00EE takes PC from the top of the stack.
C23_CallReturn ==
  [][/\ (cyc.pc = "fetch" /\ Hi(ch'.opcode) = 2 /\ fault' = "none" /\ CycFetch)
          => ch'.PC = (ch.PC + 2) % Word
     /\ (cyc.pc = "exec" /\ Hi(ch.opcode) = 2 /\ ch.SP < StackSize - 1 /\ ExecStep)
          => /\ fault' = "none" /\ ch'.PC = ch.nnn
             /\ ch'.SP = ch.SP + 1 /\ ch'.Stack[ch'.SP] = ch.PC
             /\ Op00EE(ch').how = "ok"
             /\ Op00EE(ch').ch.PC = ch.PC /\ Op00EE(ch').ch.SP = ch.SP
     /\ (cyc.pc = "exec" /\ ch.opcode = \h00EE /\ ch.SP \in 1..(StackSize - 1)
           /\ ExecStep)
          => (ch'.PC = ch.Stack[ch.SP] /\ ch'.SP = ch.SP - 1)]_vars

\* the inner of two nested subroutines has returned to the word after its
\* call (0x208) with the outer return address still on the stack
C23_Witness ==
  /\ cyc.pc = "fetch" /\ ch.opcode = \h00EE /\ ch.PC = RomBase + 8
  /\ ch.SP = 1 /\ ch.Stack[1] = RomBase + 2 /\ ch.Stack[2] = RomBase + 8

\* C24: no step of the clock goroutine increases DT or ST, whatever the
\* cycle goroutine writes to the timers between the steps of a tick.
C24_TickNeverIncreases ==
  [][(clk'.pc # clk.pc /\ Clock) => (ch'.DT <= ch.DT /\ ch'.ST <= ch.ST)]_vars

\* C25: while the process runs, ST = 0 and the clock goroutine is between
\* two ticks, the last call of the beep sink, if any, was with false.
C25_SilentTimerSinkOff ==
  (Alive /\ ch.ST = 0 /\ clk.pc \in {"gate", "callwait", "waiting"})
    => sinkOn # <<TRUE>>

\* C26: no goroutine calls Wait through a ch.wg that Resume has set to nil
\* since the goroutine tested it, and a goroutine inside Wait on a gate that
\* Resume has released leaves Wait.
C26_GateRaceFree ==
  /\ [][/\ (cyc.pc = "callwait" /\ CycWait) => fault' = "none"
        /\ (clk.pc = "callwait" /\ ClkWait) => fault' = "none"]_vars
  /\ (cyc.pc = "waiting" /\ wgs[cyc.wg[1]] = 0) ~> (cyc.pc # "waiting")
  /\ (clk.pc = "waiting" /\ wgs[clk.wg[1]] = 0) ~> (clk.pc # "waiting")

\* the instructions that reach Memory through I
UsesI(c) ==
  \/ Hi(c.opcode) = 13
  \/ Hi(c.opcode) = 15 /\ c.kk \in {\h33, \h55, \h65}

\* C27: no fetch and no Dxyn, Fx33, Fx55 or Fx65 reads or writes Memory at
\* an address outside 0x000..0xFFF (the access would end the process).
C27_MemoryInBounds ==
  [][/\ (cyc.pc = "fetch" /\ CycFetch) => fault' = "none"
     /\ (cyc.pc = "exec" /\ UsesI(ch) /\ ExecStep) => fault' = "none"]_vars

====
